---------------------------- MODULE Spec2Model ----------------------------
(***************************************************************************)
(* A model of the OpenMDAO core: Component.apply_nonlinear, the variable    *)
(* registry and the vector accessors of a Component                        *)
(* (src/openmdao/core/component.py), Problem.setup with its helpers        *)
(* _get_implicit_connections and _setup_units, Problem.calc_gradient and   *)
(* Problem.check_partial_derivatives (src/openmdao/core/problem.py).       *)
(*                                                                         *)
(* The parts of the program are independent of each other; each has its    *)
(* own variables, initial condition and next-state relation, and a         *)
(* specification of its own (SpecResidual, SpecSetup, SpecGradient,        *)
(* SpecCheck, SpecRegistry).  Spec is their union: a behaviour of Spec is  *)
(* a behaviour of one part with the other parts idle.                      *)
(***************************************************************************)
EXTENDS Integers, Sequences, FiniteSets, TLC

VARIABLES
    \* ---- Component.apply_nonlinear -------------------------------------
    an_live,        \* TRUE when this part of the model is the one running
    an_unknowns,    \* unknowns.vec of the component
    an_resids,      \* resids.vec of the component
    an_call,        \* the last operation on the component and its inputs
    \* ---- Problem.setup -------------------------------------------------
    params_dict,    \* root params_dict: abs name -> metadata
    unknowns_dict,  \* root unknowns_dict: abs name -> metadata
    explicit_conns, \* root._get_explicit_connections(): target -> source
    su,             \* how far Problem.setup got and what it produced
    \* ---- Problem.calc_gradient -----------------------------------------
    cg_env,         \* the root system the gradient is asked of
    cg_args,        \* the arguments of the call
    cg_pc,          \* position of the call in calc_gradient
    cg_loc,         \* locals of calc_gradient: mode, j, jbase, in_idx, ...
    cg_rhs,         \* the right-hand-side vector rhs
    cg_dx,          \* the solution returned by the last ln_solver.solve
    cg_J,           \* the Jacobian being assembled
    cg_log,         \* every ln_solver.solve invocation so far
    cg_result,      \* how the call ended
    \* ---- Problem.check_partial_derivatives -----------------------------
    cp_env,         \* the components of the model and the variable sizes
    cp_pc,          \* position of the call in check_partial_derivatives
    cp_i,           \* index in model_hierarchy of the component in turn
    cp_skip_keys,   \* the list skip_keys
    cp_data,        \* data: component -> (output, input) -> what is reported
    cp_effects,     \* what the call has invoked so far, and on which component
    cp_result,      \* how the call ended
    \* ---- Component variable registry and vectors -----------------------
    rg_pathname,    \* self.pathname
    rg_active,      \* self.is_active() on this process
    rg_params,      \* self._params_dict, in its order: <<key, meta>> entries
    rg_unknowns,    \* self._unknowns_dict, likewise
    rg_post_setup,  \* self._post_setup
    rg_vecs,        \* self._vecs: "None" or the views create_views returned
    rg_setups,      \* how many times _setup_variables has run
    rg_vsetups,     \* how many times _setup_vectors has run
    rg_last         \* the last call on the component and how it ended

anVars == <<an_live, an_unknowns, an_resids, an_call>>
suVars == <<params_dict, unknowns_dict, explicit_conns, su>>
cgVars == <<cg_env, cg_args, cg_pc, cg_loc, cg_rhs, cg_dx, cg_J, cg_log, cg_result>>
cpVars == <<cp_env, cp_pc, cp_i, cp_skip_keys, cp_data, cp_effects, cp_result>>
rgVars == <<rg_pathname, rg_active, rg_params, rg_unknowns, rg_post_setup, rg_vecs,
           rg_setups, rg_vsetups, rg_last>>
vars == <<anVars, suVars, cgVars, cpVars, rgVars>>

----------------------------------------------------------------------------
(***************************************************************************)
(* Bounds of the model.                                                    *)
(***************************************************************************)
\* length of a component's unknowns / resids vector
VecLen == 2
\* vector entries are integers in -MaxVal .. MaxVal
MaxVal == 1

Idx == 1..VecLen
Vals == (0 - MaxVal)..MaxVal
ZeroVec == [i \in Idx |-> 0]

----------------------------------------------------------------------------
(***************************************************************************)
(* Component.apply_nonlinear, the default residual evaluator.              *)
(***************************************************************************)

\* -v, elementwise
NegVec(v) == [i \in DOMAIN v |-> 0 - v[i]]
\* a + b, elementwise
AddVec(a, b) == [i \in DOMAIN a |-> a[i] + b[i]]
\* a - b, elementwise
SubVec(a, b) == [i \in DOMAIN a |-> a[i] - b[i]]

\* An explicit component's solve_nonlinear: it overwrites the unknowns with
\* the freshly computed outputs u_new and leaves resids alone.
solve_nonlinear(unknowns, resids, u_new) ==
    [unknowns |-> u_new, resids |-> resids]

\* A faulty restore step: the residual is added back instead of subtracted.
apply_nonlinear_AddsBack(unknowns, resids, u_new) ==
    LET r1 == NegVec(unknowns)
        s  == solve_nonlinear(unknowns, r1, u_new)
        r2 == AddVec(s.resids, s.unknowns)
    IN  [unknowns |-> AddVec(s.unknowns, r2), resids |-> r2]

\* component.py 255-262:
\*   resids.vec[:] = -unknowns.vec[:]
\*   self.solve_nonlinear(params, unknowns, resids)
\*   resids.vec[:] += unknowns.vec[:]
\*   unknowns.vec[:] -= resids.vec[:]
apply_nonlinear(unknowns, resids, u_new) ==
    LET r1 == NegVec(unknowns)
        s  == solve_nonlinear(unknowns, r1, u_new)
        r2 == AddVec(s.resids, s.unknowns)
    IN  [unknowns |-> SubVec(s.unknowns, r2), resids |-> r2]

NoCall == [op |-> "none"]

InitResidual ==
    /\ an_live = TRUE
    /\ an_unknowns \in [Idx -> Vals]
    /\ an_resids \in [Idx -> Vals]
    /\ an_call = NoCall

IdleResidual ==
    /\ an_live = FALSE
    /\ an_unknowns = ZeroVec
    /\ an_resids = ZeroVec
    /\ an_call = NoCall

\* The residual evaluation of the component is requested.
ApplyNonlinear ==
    /\ an_live
    /\ \E u_new \in [Idx -> Vals] :
         LET res == apply_nonlinear(an_unknowns, an_resids, u_new)
         IN  /\ an_unknowns' = res.unknowns
             /\ an_resids' = res.resids
             /\ an_call' = [op |-> "apply_nonlinear", u_old |-> an_unknowns,
                            u_new |-> u_new,
                            r_dirty |-> (an_resids # ZeroVec)]
    /\ UNCHANGED an_live
    /\ UNCHANGED <<suVars, cgVars, cpVars, rgVars>>

NextResidual == ApplyNonlinear

\* C1: after Component.apply_nonlinear the unknowns vector equals the vector
\* it held before the call, and the resids vector equals u_new - u_old, where
\* u_new is what solve_nonlinear wrote, whatever resids held before.
C1_ResidualTrick ==
    an_call.op = "apply_nonlinear" =>
        /\ an_unknowns = an_call.u_old
        /\ \A i \in Idx : an_resids[i] = an_call.u_new[i] - an_call.u_old[i]

\* C1 witness: a call whose solve_nonlinear changed an output, entered with
\* resids that were not zero.
C1_Witness ==
    /\ an_call.op = "apply_nonlinear"
    /\ an_call.r_dirty
    /\ \E i \in Idx : an_call.u_new[i] # an_call.u_old[i]
    /\ \E i \in Idx : an_call.u_old[i] # 0

----------------------------------------------------------------------------
(***************************************************************************)
(* Problem.setup: connection resolution and unit conversion.               *)
(***************************************************************************)

\* number of parameters of the model (absolute names 1 .. NumParams)
NumParams == 2

Params == 1..NumParams
Unknowns == {"u1", "u2"}
\* promoted (relative) names of the unknowns, and of the parameters
UnknownRelNames == {"x", "y"}
ParamRelNames == {"x", "y", "z"}

\* metadata without a 'units' key
NoUnits == "-"
\* units an unknown may declare, and units a parameter may declare
SrcUnits == {NoUnits, "degA"}
TgtUnits == {NoUnits, "degA", "degB", "mdegA", "ft"}
\* metadata without a 'unit_conv' key
NoConv == <<>>
Incompatible == <<"Incompatible units">>

\* openmdao.units.units.get_conversion_tuple on the units of the model:
\* (scale, offset), or Incompatible for the TypeError("Incompatible units").
\* degB is degA shifted by 32, mdegA is a thousandth of a degA, and a ft is
\* no temperature.
get_conversion_tuple(src_unit, tgt_unit) ==
    CASE src_unit = tgt_unit -> <<1, 0>>
      [] src_unit = "degA" /\ tgt_unit = "degB" -> <<1, 32>>
      [] src_unit = "degA" /\ tgt_unit = "mdegA" -> <<1000, 0>>
      [] OTHER -> Incompatible

\* all dicts with keys in D and values in R
Dicts(D, R) == UNION {[S -> R] : S \in SUBSET D}
EmptyDict == <<>>

\* dict.update: the entries of b are written over those of a
dict_update(a, b) ==
    [k \in (DOMAIN a) \cup (DOMAIN b) |-> IF k \in DOMAIN b THEN b[k] ELSE a[k]]

\* problem.py 722-729: relative name -> the absolute names carrying it
abs_names(dict) ==
    [n \in {dict[a].relative_name : a \in DOMAIN dict} |->
        {a \in DOMAIN dict : dict[a].relative_name = n}]

\* An ambiguity test that is off by one: three unknowns are needed to trip it.
matches_multiple_OffByOne(lst) == Cardinality(lst) > 2

\* problem.py 733: len(lst) > 1
matches_multiple(lst) == Cardinality(lst) > 1

\* problem.py 693-743.  The set of results the call can have: a
\* RuntimeError naming a promoted name and its unknowns (the first ambiguous
\* name the dict iteration meets), or the implicit connections.
get_implicit_connections(pd, ud) ==
    LET abs_unknowns == abs_names(ud)
        abs_params == abs_names(pd)
        ambiguous == {n \in DOMAIN abs_unknowns : matches_multiple(abs_unknowns[n])}
    IN  IF ambiguous # {}
        THEN {[raised |-> TRUE, name |-> n, lst |-> abs_unknowns[n],
               connections |-> EmptyDict] : n \in ambiguous}
        ELSE {[raised |-> FALSE, name |-> "", lst |-> {},
               connections |->
                  [p \in {q \in DOMAIN pd : pd[q].relative_name \in DOMAIN abs_unknowns} |->
                      CHOOSE u \in abs_unknowns[pd[p].relative_name] : TRUE]]}

\* A setup that does not look for explicit/implicit conflicts at all.
conflict_targets_Unchecked(connections, implicit_conns) == {}

\* problem.py 111-112: the explicitly connected targets that are also keys
\* of implicit_conns; the first one met raises.
conflict_targets(connections, implicit_conns) ==
    {tgt \in DOMAIN connections : tgt \in DOMAIN implicit_conns}

\* A storing test with "and" in place of "or".
stores_conversion_And(scale, offset) == scale # 1 /\ offset # 0

\* problem.py 567: if scale != 1.0 or offset != 0.0
stores_conversion(scale, offset) == scale # 1 \/ offset # 0

\* problem.py 548: units must be in both src and target
both_have_units(tmeta, smeta) == tmeta.units # NoUnits /\ smeta.units # NoUnits

\* problem.py 544-568, one connection whose units are compatible: the target
\* metadata after the loop body
setup_units_one(tmeta, smeta) ==
    IF ~both_have_units(tmeta, smeta)
    THEN tmeta
    ELSE LET t == get_conversion_tuple(smeta.units, tmeta.units)
         IN  IF stores_conversion(t[1], t[2])
             THEN [tmeta EXCEPT !.unit_conv = <<t[1], t[2]>>]
             ELSE tmeta

\* the connections on which get_conversion_tuple raises
incompatible_targets(connections, pd, ud) ==
    {t \in DOMAIN connections :
        /\ both_have_units(pd[t], ud[connections[t]])
        /\ get_conversion_tuple(ud[connections[t]].units, pd[t].units) = Incompatible}

\* params_dict after the loop body ran for the targets in visited
setup_units_visit(connections, pd, ud, visited) ==
    [p \in DOMAIN pd |->
        IF p \in visited THEN setup_units_one(pd[p], ud[connections[p]]) ELSE pd[p]]

NoMsg == [kind |-> "none"]

\* problem.py 525-568.  The set of results the call can have.  With no
\* incompatible pair every connection is visited.  Otherwise the loop stops
\* at the first incompatible pair the dict iteration meets, having visited
\* some of the compatible ones before it.
setup_units(connections, pd, ud) ==
    LET bad == incompatible_targets(connections, pd, ud)
    IN  IF bad = {}
        THEN {[raised |-> FALSE, msg |-> NoMsg, unknowns_dict |-> ud,
               params_dict |-> setup_units_visit(connections, pd, ud, DOMAIN connections)]}
        ELSE {[raised |-> TRUE, unknowns_dict |-> ud,
               msg |-> [kind |-> "units",
                        src_units |-> ud[connections[b]].units,
                        src_name |-> ud[connections[b]].relative_name,
                        tgt_units |-> pd[b].units,
                        tgt_name |-> pd[b].relative_name],
               params_dict |-> setup_units_visit(connections, pd, ud, v)]
              : b \in bad, v \in SUBSET ((DOMAIN connections) \ bad)}

\* problem.py 126-130
hanging_params(pd, connections) == {p \in DOMAIN pd : p \notin DOMAIN connections}

NotRun == [outcome |-> "none", msg |-> NoMsg, steps |-> <<>>,
           implicit_conns |-> EmptyDict,
           connections |-> EmptyDict, units_arg |-> EmptyDict,
           vectors_arg |-> EmptyDict, hanging |-> {},
           params_before |-> EmptyDict, unknowns_before |-> EmptyDict]

\* Problem.setup raised, or returned, with the locals implicit_conns and
\* connections as given
setup_end(outcome, msg, steps, implicit_conns, connections, units_arg, vectors_arg, pd0, ud0) ==
    [outcome |-> outcome, msg |-> msg, steps |-> steps,
     implicit_conns |-> implicit_conns, connections |-> connections,
     units_arg |-> units_arg,
     vectors_arg |-> vectors_arg,
     hanging |-> IF outcome = "ok" THEN hanging_params(pd0, connections) ELSE {},
     params_before |-> pd0, unknowns_before |-> ud0]

\* problem.py 117-148: from the merge on.  check_ok is whether
\* check_connections accepts the connections.
setup_after_conflicts(pd, ud, connections, implicit_conns, check_ok) ==
    LET merged == dict_update(connections, implicit_conns)
    IN  {IF u.raised
         THEN [su |-> setup_end("TypeError", u.msg, <<"merge">>, implicit_conns, merged, merged,
                                EmptyDict, pd, ud),
               params_dict |-> u.params_dict, unknowns_dict |-> u.unknowns_dict]
         ELSE IF ~check_ok
         THEN [su |-> setup_end("ConnectError", [kind |-> "check"],
                                <<"merge", "units">>, implicit_conns, merged, merged,
                                EmptyDict, pd, ud),
               params_dict |-> u.params_dict, unknowns_dict |-> u.unknowns_dict]
         ELSE [su |-> setup_end("ok", NoMsg,
                                <<"merge", "units", "check", "vectors", "recorders">>,
                                implicit_conns, merged, merged, merged, pd, ud),
               params_dict |-> u.params_dict, unknowns_dict |-> u.unknowns_dict]
         : u \in setup_units(merged, pd, ud)}

\* problem.py 79-148, Problem.setup.  The set of ways the call can end.
Problem_setup(pd, ud, connections, check_ok) ==
    UNION {
        IF imp.raised
        THEN {[su |-> setup_end("RuntimeError",
                                [kind |-> "ambiguous", name |-> imp.name, lst |-> imp.lst],
                                <<>>, EmptyDict, connections, EmptyDict, EmptyDict,
                                pd, ud),
               params_dict |-> pd, unknowns_dict |-> ud]}
        ELSE LET implicit_conns == imp.connections
                 clash == conflict_targets(connections, implicit_conns)
             IN  IF clash # {}
                 THEN {[su |-> setup_end("RuntimeError",
                                         [kind |-> "conflict", tgt |-> tgt,
                                          explicit |-> connections[tgt],
                                          implicit |-> implicit_conns[tgt]],
                                         <<>>, implicit_conns, connections,
                                         EmptyDict, EmptyDict, pd, ud),
                        params_dict |-> pd, unknowns_dict |-> ud] : tgt \in clash}
                 ELSE setup_after_conflicts(pd, ud, connections, implicit_conns, check_ok)
        : imp \in get_implicit_connections(pd, ud)}

InitSetup ==
    /\ params_dict \in [Params -> [relative_name : ParamRelNames, units : TgtUnits,
                                   unit_conv : {NoConv}]]
    /\ unknowns_dict \in [Unknowns -> [relative_name : UnknownRelNames, units : SrcUnits]]
    /\ explicit_conns \in Dicts(Params, Unknowns)
    /\ su = NotRun

IdleSetup ==
    /\ params_dict = EmptyDict
    /\ unknowns_dict = EmptyDict
    /\ explicit_conns = EmptyDict
    /\ su = [NotRun EXCEPT !.outcome = "idle"]

\* Problem.setup is called on the model.
Setup ==
    /\ su.outcome = "none"
    /\ \E check_ok \in BOOLEAN :
         \E r \in Problem_setup(params_dict, unknowns_dict, explicit_conns, check_ok) :
            /\ su' = r.su
            /\ params_dict' = r.params_dict
            /\ unknowns_dict' = r.unknowns_dict
    /\ UNCHANGED explicit_conns
    /\ UNCHANGED <<anVars, cgVars, cpVars, rgVars>>

NextSetup == Setup

\* Problem.setup has been called and has ended
SetupRan == su.outcome \notin {"none", "idle"}

\* the unknowns whose relative name is that of parameter p
RelMatch(p) ==
    {u \in Unknowns : unknowns_dict[u].relative_name = params_dict[p].relative_name}

\* every relative unknown name belongs to one absolute unknown
Unambiguous ==
    \A a, b \in Unknowns :
        unknowns_dict[a].relative_name = unknowns_dict[b].relative_name => a = b

\* target t is declared connected to one source and name-matched to another
Conflicting(t) ==
    /\ t \in DOMAIN explicit_conns
    /\ \E c \in RelMatch(t) : c # explicit_conns[t]

\* target t is declared connected to the very source its name matches
Redundant(t) ==
    /\ t \in DOMAIN explicit_conns
    /\ RelMatch(t) = {explicit_conns[t]}

\* C2: if some target has an explicitly declared source B and an implicit
\* source C # B, setup raises a RuntimeError naming that target, B and C,
\* before the maps are merged, before any unit conversion is written and
\* before vectors or recorders are set up.
C2_ConflictRaisesNamingSources ==
    (SetupRan /\ Unambiguous /\ \E t \in Params : Conflicting(t)) =>
        /\ su.outcome = "RuntimeError"
        /\ su.msg.kind = "conflict"
        /\ Conflicting(su.msg.tgt)
        /\ su.msg.explicit = explicit_conns[su.msg.tgt]
        /\ su.msg.implicit \in RelMatch(su.msg.tgt)
        /\ su.msg.implicit # su.msg.explicit
        /\ su.steps = <<>>
        /\ su.connections = explicit_conns
        /\ params_dict = su.params_before

\* the connection map the resolver is to produce
ExpectedConnections ==
    [t \in (DOMAIN explicit_conns) \cup {p \in Params : RelMatch(p) # {}} |->
        IF t \in DOMAIN explicit_conns
        THEN explicit_conns[t]
        ELSE CHOOSE u \in RelMatch(t) : TRUE]

\* C3: when setup raises no connection error, the connection map handed to
\* _setup_units and to _setup_vectors holds every explicit edge unchanged,
\* an edge to the unique name-matched unknown for every other parameter that
\* has one, and nothing else.
C3_MergedConnections ==
    (SetupRan /\ su.outcome # "RuntimeError") =>
        /\ "merge" \in {su.steps[i] : i \in DOMAIN su.steps}
        /\ su.units_arg = ExpectedConnections
        /\ su.outcome = "ok" => su.vectors_arg = ExpectedConnections
        /\ \A t \in DOMAIN explicit_conns : su.units_arg[t] = explicit_conns[t]
        /\ \A t \in (DOMAIN su.units_arg) \ (DOMAIN explicit_conns) :
              RelMatch(t) = {su.units_arg[t]}

\* C3 witness: setup completed on a model with an explicit edge, an implicit
\* edge and the vectors set up.
C3_Witness ==
    /\ su.outcome = "ok"
    /\ explicit_conns # EmptyDict
    /\ su.implicit_conns # EmptyDict
    /\ \E t \in DOMAIN explicit_conns : RelMatch(t) = {}
    /\ su.vectors_arg = dict_update(explicit_conns, su.implicit_conns)

\* C4: _get_implicit_connections raises the RuntimeError naming the promoted
\* name and its absolute unknowns exactly when two or more absolute unknowns
\* share a relative name; when it raises nothing, every parameter of its
\* result is mapped to the one unknown carrying its relative name.
C4_AmbiguityRaises ==
    SetupRan =>
        /\ (su.outcome = "RuntimeError" /\ su.msg.kind = "ambiguous") <=> ~Unambiguous
        /\ su.msg.kind = "ambiguous" =>
              /\ Cardinality(su.msg.lst) >= 2
              /\ su.msg.lst = {u \in Unknowns :
                                  unknowns_dict[u].relative_name = su.msg.name}
        /\ Unambiguous =>
              /\ DOMAIN su.implicit_conns = {p \in Params : RelMatch(p) # {}}
              /\ \A p \in DOMAIN su.implicit_conns :
                    RelMatch(p) = {su.implicit_conns[p]}

\* C4 witness: setup failed on two unknowns promoted to the same name.
C4_Witness ==
    /\ su.outcome = "RuntimeError"
    /\ su.msg.kind = "ambiguous"
    /\ su.msg.lst = Unknowns

\* C5: setup raises the explicit/implicit conflict error only for a target
\* whose two sources differ; a target whose declared source is also its
\* name-matched source does not make setup fail and is connected to that
\* source in the merged map.
C5_SameSourceAccepted ==
    SetupRan =>
        /\ su.msg.kind = "conflict" => su.msg.explicit # su.msg.implicit
        /\ (Unambiguous /\ ~(\E t \in Params : Conflicting(t))) =>
              /\ su.outcome # "RuntimeError"
              /\ \A t \in Params : Redundant(t) =>
                    /\ t \in DOMAIN su.connections
                    /\ su.connections[t] = explicit_conns[t]

\* C6: after _setup_units completes, a connected target carries unit_conv
\* exactly when both ends declare units and the conversion is not (1, 0),
\* and then it is that (scale, offset); nothing else in the metadata of the
\* parameters and of the unknowns has changed.
C6_UnitConvStored ==
    (SetupRan /\ "units" \in {su.steps[i] : i \in DOMAIN su.steps}) =>
        /\ unknowns_dict = su.unknowns_before
        /\ \A p \in Params :
              /\ params_dict[p].relative_name = su.params_before[p].relative_name
              /\ params_dict[p].units = su.params_before[p].units
              /\ su.params_before[p].unit_conv = NoConv
              /\ IF p \in DOMAIN su.units_arg
                 THEN LET smeta == unknowns_dict[su.units_arg[p]]
                          both == params_dict[p].units # NoUnits /\ smeta.units # NoUnits
                          conv == get_conversion_tuple(smeta.units, params_dict[p].units)
                      IN  /\ params_dict[p].unit_conv # NoConv <=> (both /\ conv # <<1, 0>>)
                          /\ params_dict[p].unit_conv # NoConv =>
                                params_dict[p].unit_conv = conv
                 ELSE params_dict[p] = su.params_before[p]

\* C6 witness: _setup_units completed having stored the pure offset (1, 32)
\* on one target and nothing on a target whose units equal its source's.
C6_Witness ==
    /\ "units" \in {su.steps[i] : i \in DOMAIN su.steps}
    /\ \E p \in DOMAIN su.units_arg : params_dict[p].unit_conv = <<1, 32>>
    /\ \E p \in DOMAIN su.units_arg :
          /\ params_dict[p].units # NoUnits
          /\ params_dict[p].units = unknowns_dict[su.units_arg[p]].units
          /\ params_dict[p].unit_conv = NoConv

----------------------------------------------------------------------------
(***************************************************************************)
(* Problem.calc_gradient.                                                  *)
(***************************************************************************)

\* a variable of the unknowns vector has between 0 and MaxSize entries
MaxSize == 2
\* param_list and unknown_list hold at most MaxList names
MaxList == 2

\* the variables of root.unknowns, in the order of the vector
UOrder == <<"u1", "u2">>
UNames == {UOrder[i] : i \in DOMAIN UOrder}
\* root._src: the parameter p1 is fed by the unknown u1
Src == [p1 |-> "u1"]
\* the variables of root.params
PNames == DOMAIN Src
\* names a caller may put in param_list and in unknown_list; zz is the name
\* of no variable
ParamChoices == {"p1", "u2", "zz"}
UnknownChoices == {"u1", "u2", "zz"}

Modes == {"auto", "fwd", "rev", "fd", "newton"}
Formats == {"array", "dict", "list"}

\* sequences over S of length at most n
SeqsUpTo(S, n) == UNION {[1..m -> S] : m \in 0..n}

\* a list that names twice something that is not a variable, after
\* variables of different sizes
RepeatedParams == <<"p1", "zz", "u2", "zz">>
RepeatedUnknowns == <<"u1", "zz", "u2", "zz">>
\* the param_list and unknown_list arguments of a call
ParamLists == SeqsUpTo(ParamChoices, MaxList) \cup {RepeatedParams}
UnknownLists == SeqsUpTo(UnknownChoices, MaxList) \cup {RepeatedUnknowns}

RECURSIVE SumSizes(_, _)
\* sizes of the first n variables of the vector, added up
SumSizes(sizes, n) == IF n = 0 THEN 0 ELSE sizes[UOrder[n]] + SumSizes(sizes, n - 1)

\* len(unknowns.vec)
VecSize(sizes) == SumSizes(sizes, Len(UOrder))

\* VecWrapper.get_local_idxs: the indices of a variable in the vector
get_local_idxs(sizes, name) ==
    LET pos == CHOOSE i \in DOMAIN UOrder : UOrder[i] = name
        off == SumSizes(sizes, pos - 1)
    IN  [i \in 1..sizes[name] |-> off + i]

\* np.zeros((n, ))
Zeros(n) == [i \in 1..n |-> 0]

\* entry (i, k) of the linearized system the solver inverts
Coef(i, k) == 10 * i + k

RECURSIVE Dot(_, _, _, _)
\* sum over k = 1 .. n of Coef(i, k) * rhs[k], transposed in reverse mode
Dot(rhs, i, mode, n) ==
    IF n = 0 THEN 0
    ELSE (IF mode = "fwd" THEN Coef(i, n) ELSE Coef(n, i)) * rhs[n]
         + Dot(rhs, i, mode, n - 1)

\* root.ln_solver.solve(rhs, root, mode): a deterministic linear map of rhs
ln_solve(rhs, mode) == [i \in DOMAIN rhs |-> Dot(rhs, i, mode, Len(rhs))]

\* a local that has not been assigned yet
Unbound == <<-1>>

\* J[okey][ikey] = None
NoneBlock == [kind |-> "None", rows |-> 0, cols |-> 0, a |-> <<>>, key |-> <<>>]
\* np.zeros((rows, cols))
ZeroBlock(rows, cols) ==
    [kind |-> "block", rows |-> rows, cols |-> cols,
     a |-> [rc \in (1..rows) \X (1..cols) |-> 0], key |-> <<>>]
\* Jfd[okey, fd_ikey], a block of the finite-difference Jacobian
FdBlock(okey, fd_ikey) ==
    [kind |-> "fd", rows |-> 0, cols |-> 0, a |-> <<>>, key |-> <<okey, fd_ikey>>]

\* the elements of a list
Elems(list) == {list[i] : i \in DOMAIN list}

\* problem.py 216-220: the name under which Jfd holds the input ikey
fd_ikey(ikey) ==
    IF ikey \in PNames THEN ikey
    ELSE IF \E key \in DOMAIN Src : Src[key] = ikey
         THEN CHOOSE key \in DOMAIN Src : Src[key] = ikey
         ELSE ikey

\* A lookup that refuses a name it cannot resolve.
lookup_idx_Strict(sizes, name, previous) ==
    IF name \in UNames THEN get_local_idxs(sizes, name)
    ELSE IF name \in DOMAIN Src /\ Src[name] \in UNames
         THEN get_local_idxs(sizes, Src[name])
         ELSE Unbound

\* problem.py 267-272 and 288-293: the index lookup of a name.  A name that
\* is neither an unknown nor fed by one leaves the local as it was.
lookup_idx(sizes, name, previous) ==
    IF name \in UNames THEN get_local_idxs(sizes, name)
    ELSE IF name \in DOMAIN Src /\ Src[name] \in UNames
         THEN get_local_idxs(sizes, Src[name])
         ELSE previous

\* A seed that is never taken back.
unseed_Forgotten(rhs, irhs) == rhs

\* problem.py 283: rhs[irhs] = 0.0
unseed(rhs, irhs) == [rhs EXCEPT ![irhs] = 0]

\* problem.py 278: rhs[irhs] = 1.0
seed(rhs, irhs) == [rhs EXCEPT ![irhs] = 1]

\* A scatter that reads the head of dx instead of the variable's entries.
scatter_values_FromStart(dx, out_idx) == [r \in DOMAIN out_idx |-> dx[r]]

\* problem.py 301, 305: dx[out_idx]
scatter_values(dx, out_idx) == [r \in DOMAIN out_idx |-> dx[out_idx[r]]]

\* value is the type of the object returned: "dict", "array", or "none"
\* An automatic selection that settles on forward mode.
resolve_mode_PicksFwd(mode, ln_mode) ==
    IF mode = "auto" THEN (IF ln_mode = "auto" THEN "fwd" ELSE ln_mode) ELSE mode

\* problem.py 250-251: the call's mode, the solver's when the call says auto
resolve_mode(mode, ln_mode) == IF mode = "auto" THEN ln_mode ELSE mode

\* A validation that looks at the mode only.
argument_error_ModeOnly(mode, return_format) ==
    IF mode \notin {"auto", "fwd", "rev", "fd"} THEN 192 ELSE 0

\* problem.py 190-196: the line of the ValueError the arguments raise, 0 when
\* both are among the enumerated values
argument_error(mode, return_format) ==
    IF mode \notin {"auto", "fwd", "rev", "fd"} THEN 192
    ELSE IF return_format \notin {"array", "dict"} THEN 196
    ELSE 0

NoResult == [outcome |-> "none", line |-> 0, value |-> "none"]
NoLocals == [mode |-> "", input_list |-> <<>>, output_list |-> <<>>, pidx |-> 0,
             k |-> 0, j |-> 0, jbase |-> 0, in_idx |-> Unbound,
             out_idx |-> Unbound, effects |-> {}]

\* problem.py 190-260: calc_gradient up to the sweep.  What the call has
\* done and where it stands when it raises, returns, or reaches line 264.
calc_gradient_prologue(env, args) ==
    LET stopped(outcome, line, effects, J) ==
            [pc |-> "done", loc |-> [NoLocals EXCEPT !.effects = effects],
             rhs |-> <<>>, J |-> J,
             result |-> [outcome |-> outcome, line |-> line,
                         value |-> IF outcome = "return" THEN "dict" ELSE "none"]]
        prepared == {"clear_dparams", "zero_dunknowns", "zero_dresids", "jacobian"}
        keys == Elems(args.unknown_list) \X Elems(args.param_list)
        mode == resolve_mode(args.mode, env.ln_mode)
        bad == argument_error(args.mode, args.return_format)
    IN  IF bad # 0
        THEN stopped("ValueError", bad, {}, <<>>)
        ELSE IF args.mode = "fd" \/ env.force_fd
        THEN stopped("return", 223, {"fd_jacobian"},
                     [key \in keys |-> FdBlock(key[1], fd_ikey(key[2]))])
        ELSE IF args.return_format # "dict"
        THEN \* system.get_size: the name `system` is not defined
             stopped("NameError", 244, prepared, <<>>)
        ELSE IF mode = "auto"
        THEN stopped("NotImplementedError", 255, prepared, [key \in keys |-> NoneBlock])
        ELSE [pc |-> "param",
              loc |-> [NoLocals EXCEPT
                         !.mode = mode,
                         !.input_list = IF mode = "fwd" THEN args.param_list
                                        ELSE args.unknown_list,
                         !.output_list = IF mode = "fwd" THEN args.unknown_list
                                         ELSE args.param_list,
                         !.effects = prepared],
              rhs |-> Zeros(VecSize(env.sizes)),
              J |-> [key \in keys |-> NoneBlock],
              result |-> NoResult]

\* problem.py 297-305: one item of output_list is written into the Jacobian.
\* col is j - jbase.  A block that cannot take the values makes numpy raise.
scatter_item(J, mode, param, item, dx, in_idx, out_idx, col) ==
    LET nk == Len(out_idx)
        key == IF mode = "fwd" THEN <<item, param>> ELSE <<param, item>>
        blk == IF J[key].kind = "None"
               THEN IF mode = "fwd" THEN ZeroBlock(nk, Len(in_idx))
                    ELSE ZeroBlock(Len(in_idx), nk)
               ELSE J[key]
        vals == scatter_values(dx, out_idx)
        line == IF mode = "fwd" THEN blk.cols ELSE blk.rows
        span == IF mode = "fwd" THEN blk.rows ELSE blk.cols
        val(n) == IF nk = 1 THEN vals[1] ELSE vals[n]
    IN  IF col + 1 > line
        THEN [err |-> "IndexError", J |-> J]
        ELSE IF nk # span /\ nk # 1
        THEN [err |-> "ValueError", J |-> J]
        ELSE [err |-> "",
              J |-> [J EXCEPT ![key] =
                       [blk EXCEPT !.a =
                          [rc \in DOMAIN blk.a |->
                             IF mode = "fwd" /\ rc[2] = col + 1 THEN val(rc[1])
                             ELSE IF mode # "fwd" /\ rc[1] = col + 1 THEN val(rc[2])
                             ELSE blk.a[rc]]]]]

RECURSIVE scatter_items(_, _, _, _, _, _, _, _, _, _)
\* problem.py 285-312: the loop over output_list from its i-th item on.
\* out_idx is carried from item to item, and from one solve to the next.
scatter_items(sizes, J, mode, param, output_list, i, dx, in_idx, out_idx, col) ==
    IF i > Len(output_list)
    THEN [err |-> "", J |-> J, out_idx |-> out_idx]
    ELSE LET idx == lookup_idx(sizes, output_list[i], out_idx)
         IN  IF idx = Unbound
             THEN [err |-> "NameError", J |-> J, out_idx |-> out_idx]
             ELSE LET one == scatter_item(J, mode, param, output_list[i], dx,
                                          in_idx, idx, col)
                  IN  IF one.err # ""
                      THEN [err |-> one.err, J |-> J, out_idx |-> idx]
                      ELSE scatter_items(sizes, one.J, mode, param, output_list,
                                         i + 1, dx, in_idx, idx, col)

InitGradient ==
    /\ cg_env \in [sizes : [UNames -> 0..MaxSize], force_fd : BOOLEAN,
                   ln_mode : {"auto", "fwd", "rev"}]
    /\ cg_args = <<>>
    /\ cg_pc = "ready"
    /\ cg_loc = NoLocals
    /\ cg_rhs = <<>>
    /\ cg_dx = <<>>
    /\ cg_J = <<>>
    /\ cg_log = <<>>
    /\ cg_result = NoResult

IdleGradient ==
    /\ cg_env = <<>>
    /\ cg_args = <<>>
    /\ cg_pc = "idle"
    /\ cg_loc = NoLocals
    /\ cg_rhs = <<>>
    /\ cg_dx = <<>>
    /\ cg_J = <<>>
    /\ cg_log = <<>>
    /\ cg_result = NoResult

\* calc_gradient is called and runs up to its sweep (problem.py 190-264).
CalcGradient ==
    /\ cg_pc = "ready"
    /\ \E args \in [param_list : ParamLists,
                    unknown_list : UnknownLists,
                    mode : Modes, return_format : Formats] :
         LET r == calc_gradient_prologue(cg_env, args)
         IN  /\ cg_args' = args
             /\ cg_pc' = r.pc
             /\ cg_loc' = r.loc
             /\ cg_rhs' = r.rhs
             /\ cg_J' = r.J
             /\ cg_result' = r.result
    /\ UNCHANGED <<cg_env, cg_dx, cg_log>>
    /\ UNCHANGED <<anVars, suVars, cpVars, rgVars>>

\* problem.py 316: every name of input_list has been swept.
Return ==
    /\ cg_pc = "param"
    /\ cg_loc.pidx = Len(cg_loc.input_list)
    /\ cg_pc' = "done"
    /\ cg_result' = [outcome |-> "return", line |-> 316, value |-> "dict"]
    /\ UNCHANGED <<cg_env, cg_args, cg_loc, cg_rhs, cg_dx, cg_J, cg_log>>
    /\ UNCHANGED <<anVars, suVars, cpVars, rgVars>>

\* problem.py 265-276: the next name of input_list and its indices.
NextParam ==
    /\ cg_pc = "param"
    /\ cg_loc.pidx < Len(cg_loc.input_list)
    /\ LET param == cg_loc.input_list[cg_loc.pidx + 1]
           in_idx == lookup_idx(cg_env.sizes, param, cg_loc.in_idx)
       IN  IF in_idx = Unbound
           THEN /\ cg_pc' = "done"
                /\ cg_result' = [outcome |-> "NameError", line |-> 276, value |-> "none"]
                /\ cg_loc' = cg_loc
           ELSE /\ cg_result' = cg_result
                /\ IF Len(in_idx) = 0
                   THEN /\ cg_pc' = "param"
                        /\ cg_loc' = [cg_loc EXCEPT !.pidx = @ + 1, !.in_idx = in_idx,
                                                    !.jbase = cg_loc.j, !.k = 0]
                   ELSE /\ cg_pc' = "seed"
                        /\ cg_loc' = [cg_loc EXCEPT !.in_idx = in_idx,
                                                    !.jbase = cg_loc.j, !.k = 0]
    /\ UNCHANGED <<cg_env, cg_args, cg_rhs, cg_dx, cg_J, cg_log>>
    /\ UNCHANGED <<anVars, suVars, cpVars, rgVars>>

\* problem.py 276-278: the next index of the name is seeded.
Seed ==
    /\ cg_pc = "seed"
    /\ cg_rhs' = seed(cg_rhs, cg_loc.in_idx[cg_loc.k + 1])
    /\ cg_pc' = "solve"
    /\ UNCHANGED <<cg_env, cg_args, cg_loc, cg_dx, cg_J, cg_log, cg_result>>
    /\ UNCHANGED <<anVars, suVars, cpVars, rgVars>>

\* problem.py 281: dx = root.ln_solver.solve(rhs, root, mode)
Solve ==
    /\ cg_pc = "solve"
    /\ cg_dx' = ln_solve(cg_rhs, cg_loc.mode)
    /\ cg_log' = Append(cg_log, [rhs |-> cg_rhs, mode |-> cg_loc.mode])
    /\ cg_pc' = "scatter"
    /\ UNCHANGED <<cg_env, cg_args, cg_loc, cg_rhs, cg_J, cg_result>>
    /\ UNCHANGED <<anVars, suVars, cpVars, rgVars>>

\* problem.py 283-314: the seed is taken back and the solution is written
\* into the Jacobian for every name of output_list.
Scatter ==
    /\ cg_pc = "scatter"
    /\ cg_rhs' = unseed(cg_rhs, cg_loc.in_idx[cg_loc.k + 1])
    /\ LET param == cg_loc.input_list[cg_loc.pidx + 1]
           r == scatter_items(cg_env.sizes, cg_J, cg_loc.mode, param,
                              cg_loc.output_list, 1, cg_dx, cg_loc.in_idx,
                              cg_loc.out_idx, cg_loc.j - cg_loc.jbase)
           last == cg_loc.k + 1 = Len(cg_loc.in_idx)
       IN  IF r.err # ""
           THEN /\ cg_pc' = "done"
                /\ cg_result' = [outcome |-> r.err, line |-> 295, value |-> "none"]
                /\ cg_J' = cg_J
                /\ cg_loc' = [cg_loc EXCEPT !.out_idx = r.out_idx]
           ELSE /\ cg_pc' = IF last THEN "param" ELSE "seed"
                /\ cg_result' = cg_result
                /\ cg_J' = r.J
                /\ cg_loc' = [cg_loc EXCEPT !.out_idx = r.out_idx, !.j = @ + 1,
                                            !.k = @ + 1,
                                            !.pidx = IF last THEN @ + 1 ELSE @]
    /\ UNCHANGED <<cg_env, cg_args, cg_dx, cg_log>>
    /\ UNCHANGED <<anVars, suVars, cpVars, rgVars>>

NextGradient == CalcGradient \/ NextParam \/ Seed \/ Solve \/ Scatter \/ Return

\* calc_gradient has been called
Called == cg_pc \notin {"idle", "ready"}
\* the call has raised or returned
Ended == cg_pc = "done"

\* the derivative direction asked for, the solver's when the argument is auto
EffMode == IF cg_args.mode = "auto" THEN cg_env.ln_mode ELSE cg_args.mode

\* the name is an unknown or a parameter fed by one
Resolves(name) == name \in UNames \/ (name \in DOMAIN Src /\ Src[name] \in UNames)
\* the unknown a requested name stands for
VarOf(name) == IF name \in UNames THEN name ELSE Src[name]
IdxOf(name) == get_local_idxs(cg_env.sizes, VarOf(name))
SizeOf(name) == cg_env.sizes[VarOf(name)]

\* every requested name is the name of a variable
ValidNames ==
    \A n \in Elems(cg_args.param_list) \cup Elems(cg_args.unknown_list) : Resolves(n)

\* a call for keyed output in forward or reverse mode
SweepCall ==
    /\ Called
    /\ EffMode \in {"fwd", "rev"}
    /\ cg_args.mode \in {"auto", "fwd", "rev"}
    /\ cg_args.return_format = "dict"
    /\ ValidNames

\* the list whose names are seeded: the inputs in fwd, the outputs in rev
SweptList == IF EffMode = "fwd" THEN cg_args.param_list ELSE cg_args.unknown_list

RECURSIVE SeedsOf(_, _)
\* the vector indices of the first n names of the list, in list order
SeedsOf(list, n) == IF n = 0 THEN <<>> ELSE SeedsOf(list, n - 1) \o IdxOf(list[n])

\* the unit vector of index i
Unit(i) == [k \in 1..VecSize(cg_env.sizes) |-> IF k = i THEN 1 ELSE 0]

\* the solves so far are the first solves of the expected sequence, one per
\* scalar component in list order, each on a unit right-hand side; rhs is
\* zero outside a solve; the call ends by returning with all of them made
SolvesInOrder ==
    LET exp == SeedsOf(SweptList, Len(SweptList))
    IN  /\ Len(cg_log) <= Len(exp)
        /\ \A n \in DOMAIN cg_log :
              cg_log[n].rhs = Unit(exp[n]) /\ cg_log[n].mode = EffMode
        /\ cg_pc \in {"param", "seed", "done"} => \A i \in DOMAIN cg_rhs : cg_rhs[i] = 0
        /\ cg_pc = "solve" => cg_rhs = Unit(exp[Len(cg_log) + 1])
        /\ Ended => cg_result.outcome = "return" /\ Len(cg_log) = Len(exp)

\* C7, as stated: in mode fwd (rev) with keyed output, solve is invoked once
\* per scalar component of each requested input (output), in list order, on
\* the unit right-hand side of that component, and rhs is zero again after
\* each solve.
C7_OneSolvePerComponent == SweepCall => SolvesInOrder

\* C7, amended: the same, for a root that is not set to force_fd (with
\* force_fd the call returns the finite-difference Jacobian and solves
\* nothing).
C7_OneSolvePerComponentUnlessForceFd ==
    (SweepCall /\ ~cg_env.force_fd) => SolvesInOrder

\* C7 witness: a forward sweep over u2 and then over p1, fed by the
\* two-entry u1, has returned after three solves.
C7_Witness ==
    /\ SweepCall /\ ~cg_env.force_fd /\ Ended
    /\ EffMode = "fwd"
    /\ cg_args.param_list = <<"u2", "p1">>
    /\ Len(cg_log) = 3
    /\ cg_log[1].rhs = <<0, 0, 1>>

\* the block of output o and input p holds the swept solutions
BlockFilled(o, p) ==
    LET blk == cg_J[<<o, p>>]
    IN  /\ blk.kind = "block"
        /\ blk.rows = SizeOf(o)
        /\ blk.cols = SizeOf(p)
        /\ \A r \in 1..SizeOf(o), c \in 1..SizeOf(p) :
              blk.a[<<r, c>>] =
                 IF EffMode = "fwd"
                 THEN ln_solve(Unit(IdxOf(p)[c]), "fwd")[IdxOf(o)[r]]
                 ELSE ln_solve(Unit(IdxOf(o)[r]), "rev")[IdxOf(p)[c]]

\* the keys of the returned dict: every requested output with every input
KeysComplete == DOMAIN cg_J = Elems(cg_args.unknown_list) \X Elems(cg_args.param_list)

\* C8, as stated: on return in mode fwd or rev with return_format dict,
\* every J[o][p] is a block of shape (size of o, size of p) holding the
\* solutions of the sweep.
C8_KeyedBlocks ==
    (SweepCall /\ Ended /\ cg_result.outcome = "return") =>
        /\ KeysComplete
        /\ \A o \in Elems(cg_args.unknown_list), p \in Elems(cg_args.param_list) :
              BlockFilled(o, p)

\* C8, amended: the same for a root that is not set to force_fd and for
\* every pair whose swept variable (p in fwd, o in rev) has at least one
\* entry; a pair whose swept variable is empty is left None.
C8_KeyedBlocksOfSweptEntries ==
    (SweepCall /\ ~cg_env.force_fd /\ Ended /\ cg_result.outcome = "return") =>
        /\ KeysComplete
        /\ \A o \in Elems(cg_args.unknown_list), p \in Elems(cg_args.param_list) :
              IF SizeOf(IF EffMode = "fwd" THEN p ELSE o) > 0
              THEN BlockFilled(o, p)
              ELSE cg_J[<<o, p>>].kind = "None"

\* C8 witness: a reverse sweep has returned a 2 by 1 block of u1 with
\* respect to u2, every block allocated.
C8_Witness ==
    /\ SweepCall /\ ~cg_env.force_fd /\ Ended /\ cg_result.outcome = "return"
    /\ EffMode = "rev"
    /\ cg_args.unknown_list = <<"u2", "u1">>
    /\ cg_args.param_list = <<"p1", "u2">>
    /\ cg_J[<<"u1", "u2">>].rows = 2 /\ cg_J[<<"u1", "u2">>].cols = 1
    /\ \A key \in DOMAIN cg_J : cg_J[key].kind = "block"

RECURSIVE TotalSize(_, _)
\* the sizes of the first n names of the list, added up
TotalSize(list, n) == IF n = 0 THEN 0 ELSE SizeOf(list[n]) + TotalSize(list, n - 1)

\* C9: with return_format array and a valid mode (fwd, rev, fd, or auto
\* resolved by the solver) the call returns one dense matrix of shape
\* (total size of the requested outputs, total size of the requested inputs).
C9_ArrayShape ==
    (/\ Ended
     /\ cg_args.return_format = "array"
     /\ cg_args.mode \in {"auto", "fwd", "rev", "fd"}
     /\ EffMode # "auto"
     /\ ValidNames) =>
        /\ cg_result.outcome = "return"
        /\ cg_result.value = "array"
        /\ cg_J.rows = TotalSize(cg_args.unknown_list, Len(cg_args.unknown_list))
        /\ cg_J.cols = TotalSize(cg_args.param_list, Len(cg_args.param_list))

\* C10: called with mode auto while the solver's mode is auto too, the call
\* fails with NotImplementedError for every return_format and every
\* fd_options of the root, returning no Jacobian and invoking no solve.
C10_AutoAutoNotImplemented ==
    (/\ Ended
     /\ cg_args.mode = "auto"
     /\ cg_env.ln_mode = "auto"
     /\ cg_args.return_format \in {"array", "dict"}) =>
        /\ cg_result.outcome = "NotImplementedError"
        /\ cg_result.value = "none"
        /\ cg_log = <<>>

\* C10, amended: on a root that is not set to force_fd such a call never
\* invokes the solver and ends in an error, returning no Jacobian; the error
\* is the NotImplementedError when return_format is dict.  (With force_fd
\* the finite-difference Jacobian is returned; with array the call has
\* failed before, at the sizing of the matrix.)
C10_AutoAutoFailsUnlessForceFd ==
    (/\ Called
     /\ cg_args.mode = "auto"
     /\ cg_env.ln_mode = "auto"
     /\ cg_args.return_format \in {"array", "dict"}
     /\ ~cg_env.force_fd) =>
        /\ Ended
        /\ cg_result.outcome \in {"NotImplementedError", "NameError"}
        /\ cg_args.return_format = "dict" => cg_result.outcome = "NotImplementedError"
        /\ cg_result.value = "none"
        /\ cg_log = <<>>

\* C10 witness: a call for keyed output with both modes auto has ended in
\* the NotImplementedError, the model linearized and nothing solved.
C10_Witness ==
    /\ Ended
    /\ cg_args.mode = "auto" /\ cg_env.ln_mode = "auto" /\ ~cg_env.force_fd
    /\ cg_args.return_format = "dict"
    /\ cg_args.param_list # <<>> /\ cg_args.unknown_list # <<>>
    /\ cg_result.outcome = "NotImplementedError"
    /\ "jacobian" \in cg_loc.effects

\* C11: a call of calc_gradient whose mode is not one of auto, fwd, rev, fd,
\* or whose return_format is not one of array, dict, raises ValueError before
\* any other effect: no finite difference, no linearization, no zeroing of
\* the differential vectors and no linear solve has happened.
C11_InvalidArgumentRaisesFirst ==
    (/\ Called
     /\ \/ cg_args.mode \notin {"auto", "fwd", "rev", "fd"}
        \/ cg_args.return_format \notin {"array", "dict"}) =>
        /\ Ended
        /\ cg_result.outcome = "ValueError"
        /\ cg_result.value = "none"
        /\ cg_loc.effects = {}
        /\ cg_log = <<>>
        /\ cg_J = <<>>
        /\ cg_result.line = IF cg_args.mode \notin {"auto", "fwd", "rev", "fd"}
                            THEN 192 ELSE 196

\* C11 witness: a call with a valid mode and an unknown return_format, on a
\* root set to force_fd, has ended in the ValueError.
C11_Witness ==
    /\ Ended
    /\ cg_args.mode = "fwd"
    /\ cg_args.return_format = "list"
    /\ cg_env.force_fd
    /\ cg_args.param_list # <<>> /\ cg_args.unknown_list # <<>>
    /\ cg_result.outcome = "ValueError"
    /\ cg_result.line = 196

\* the first name of the list, if any, is the name of a variable
FirstResolves(list) == list # <<>> => Resolves(list[1])
\* some name of the list is not the name of a variable
SomeStale(list) == \E n \in DOMAIN list : ~Resolves(list[n])
\* no name that is not a variable's occurs twice in the list
StaleOnce(list) ==
    \A m, n \in DOMAIN list : (list[m] = list[n] /\ ~Resolves(list[n])) => m = n

RECURSIVE ProcessedAs(_, _)
\* the name whose indices are in force at position n of the list: the name
\* itself, or the one processed before it when it is not a variable's
ProcessedAs(list, n) ==
    IF Resolves(list[n]) \/ n = 1 THEN list[n] ELSE ProcessedAs(list, n - 1)
\* the same, for a name of the list
StandsFor(list, name) ==
    IF Resolves(name) THEN name
    ELSE ProcessedAs(list, CHOOSE n \in DOMAIN list : list[n] = name)

RECURSIVE StaleSeedsOf(_, _)
\* the indices seeded for the first n names of the list, in list order
StaleSeedsOf(list, n) ==
    IF n = 0 THEN <<>>
    ELSE StaleSeedsOf(list, n - 1) \o IdxOf(ProcessedAs(list, n))

\* the block under the key (o, p) is the swept block of (oe, pe)
BlockIsThatOf(o, p, oe, pe) ==
    LET blk == cg_J[<<o, p>>]
    IN  IF SizeOf(IF EffMode = "fwd" THEN pe ELSE oe) = 0
        THEN blk.kind = "None"
        ELSE /\ blk.kind = "block"
             /\ blk.rows = SizeOf(oe)
             /\ blk.cols = SizeOf(pe)
             /\ \A r \in 1..SizeOf(oe), c \in 1..SizeOf(pe) :
                   blk.a[<<r, c>>] =
                      IF EffMode = "fwd"
                      THEN ln_solve(Unit(IdxOf(pe)[c]), "fwd")[IdxOf(oe)[r]]
                      ELSE ln_solve(Unit(IdxOf(oe)[r]), "rev")[IdxOf(pe)[c]]

\* a call in forward or reverse mode in which a name that is not the first
\* of its list is not the name of a variable
StaleCall ==
    /\ Called
    /\ EffMode \in {"fwd", "rev"}
    /\ cg_args.mode \in {"fwd", "rev"}
    /\ cg_args.return_format \in {"array", "dict"}
    /\ FirstResolves(cg_args.param_list) /\ FirstResolves(cg_args.unknown_list)
    /\ SomeStale(cg_args.param_list) \/ SomeStale(cg_args.unknown_list)

\* no error is raised; every name that is not a variable's is seeded, and
\* scattered, with the indices of the name processed before it
PreviousIndicesReused ==
    LET exp == StaleSeedsOf(SweptList, Len(SweptList))
    IN  /\ cg_result.outcome \in {"none", "return"}
        /\ Len(cg_log) <= Len(exp)
        /\ \A n \in DOMAIN cg_log : cg_log[n].rhs = Unit(exp[n])
        /\ Ended =>
             /\ Len(cg_log) = Len(exp)
             /\ \A o \in Elems(cg_args.unknown_list), p \in Elems(cg_args.param_list) :
                   BlockIsThatOf(o, p, StandsFor(cg_args.unknown_list, o),
                                 StandsFor(cg_args.param_list, p))

\* C21: in mode fwd or rev, when a requested name that is not the first one
\* processed is neither an unknown nor mapped to one, no error is raised and
\* the indices of the name processed before it are reused, for the seeding
\* and for the scattered values.
C21_StaleIndicesReused == StaleCall => PreviousIndicesReused

\* C21, amended: the same for keyed output on a root that is not set to
\* force_fd, when no such name occurs twice in its list.  (With force_fd the
\* finite-difference Jacobian is returned, with array output the call has
\* failed before the sweep, and a repeated name can meet a block of another
\* shape, which raises.)
C21_StaleIndicesReusedInKeyedSweep ==
    (/\ StaleCall
     /\ cg_args.return_format = "dict"
     /\ ~cg_env.force_fd
     /\ StaleOnce(cg_args.param_list) /\ StaleOnce(cg_args.unknown_list)) =>
        PreviousIndicesReused

\* C21 witness: a forward sweep over u2 and then the unknown name zz, with
\* outputs u1 and zz, has returned; the block of zz by zz is that of u1 by u2.
C21_Witness ==
    /\ Ended /\ cg_result.outcome = "return"
    /\ cg_args.mode = "fwd" /\ cg_args.return_format = "dict" /\ ~cg_env.force_fd
    /\ cg_args.param_list = <<"u2", "zz">>
    /\ cg_args.unknown_list = <<"u1", "zz">>
    /\ cg_env.sizes["u1"] = 2 /\ cg_env.sizes["u2"] = 1
    /\ Len(cg_log) = 2
    /\ cg_J[<<"zz", "zz">>].kind = "block"
    /\ cg_J[<<"zz", "zz">>] = cg_J[<<"u1", "u2">>]

----------------------------------------------------------------------------
\* the initial states of each part, the other two parts idle

----------------------------------------------------------------------------
(***************************************************************************)
(* Problem.check_partial_derivatives.  The model has two components in one *)
(* group; each declares the parameters x and z and the unknown y, and      *)
(* holds a Jacobian cache that is None or a dictionary of blocks.          *)
(***************************************************************************)

\* model_hierarchy: the components in the order _find_all_comps lists them
CompOrder == <<"c1", "c2">>
\* the names a component's params and unknowns vectors iterate over
CheckParams == <<"x", "z">>
CheckUnknowns == <<"y">>
\* (u_name, p_name) in the order of the loops at problem.py 387 and 393
PairOrder == <<<<"y", "x">>, <<"y", "z">>>>
Pairs == {PairOrder[i] : i \in DOMAIN PairOrder}

\* the block is a Python float: it has no shape attribute
NoShape == <<-1>>
\* shapes of a cached block: a float, a 0-d array, a vector, a matrix
BlockShapes ==
    {NoShape, <<>>} \cup {<<n>> : n \in 1..MaxSize}
                    \cup {<<n, m>> : n \in 1..MaxSize, m \in 1..MaxSize}

\* comp._jacobian_cache: None, or blocks of one shape for the declared pairs
NoCache == [none |-> TRUE, declared |-> {}, shape |-> <<>>]
Caches ==
    {NoCache, [none |-> FALSE, declared |-> {}, shape |-> <<>>]}
    \cup [none : {FALSE}, declared : (SUBSET Pairs) \ {{}}, shape : BlockShapes]

\* problem.py 403-415: what the test of a cached block's shape raises.
\*   user = comp._jacobian_cache[(u_name, p_name)].shape
\*   if len(user) < 2: user = (user[0], 1)
\*   if user[0] != u_size or user[1] != p_size: raise ValueError(msg)
shape_error(shape, u_size, p_size) ==
    IF shape = NoShape THEN "AttributeError"
    ELSE IF Len(shape) = 0 THEN "IndexError"
    ELSE LET user == IF Len(shape) < 2 THEN <<shape[1], 1>> ELSE shape
         IN  IF user[1] # u_size \/ user[2] # p_size THEN "ValueError" ELSE "ok"

\* the line of problem.py an exception of the shape test comes from
shape_error_line(err) ==
    IF err = "AttributeError" THEN 403 ELSE IF err = "IndexError" THEN 407 ELSE 415

NoError == [outcome |-> "none", line |-> 0, msg |-> <<>>]

\* problem.py 387-418, from pair number i on: allocate jac_fwd / jac_rev for
\* every pair, skipping the pairs the cache does not hold and checking the
\* shape of those it holds.  The result carries the exception, if any.
RECURSIVE allocate_jacs(_, _, _, _, _, _)
allocate_jacs(comp, u_size, p_size, i, skip_keys, allocated) ==
    IF i > Len(PairOrder)
    THEN [error |-> NoError, skip_keys |-> skip_keys, allocated |-> allocated]
    ELSE LET pair == PairOrder[i]
         IN  IF ~comp.cache.none /\ pair \notin comp.cache.declared
             THEN allocate_jacs(comp, u_size, p_size, i + 1,
                                skip_keys \cup {pair}, allocated)
             ELSE LET err == IF comp.cache.none THEN "ok"
                             ELSE shape_error(comp.cache.shape, u_size, p_size)
                  IN  IF err # "ok"
                      THEN [error |-> [outcome |-> err,
                                       line |-> shape_error_line(err),
                                       msg |-> IF err = "ValueError"
                                               THEN <<comp.name, pair[2], pair[1]>>
                                               ELSE <<>>],
                            skip_keys |-> skip_keys, allocated |-> allocated]
                      ELSE allocate_jacs(comp, u_size, p_size, i + 1,
                                         skip_keys, allocated \cup {pair})

\* problem.py 435, 459, 631: the test `(u_name, p_name) in skip_keys`, on the
\* one list that check_partial_derivatives creates at line 350
skipped_in(pair, comp, skip_keys) == pair \in skip_keys

\* problem.py 420-474 and 617-640: the sweeps write every allocated pair that
\* is not in skip_keys; _assemble_deriv_data reports zeros for a pair in
\* skip_keys and the swept block for any other.
assemble_deriv_data(comp, skip_keys, allocated) ==
    [pair \in Pairs |->
        IF skipped_in(pair, comp, skip_keys) THEN "zeros" ELSE "swept"]

\* problem.py 356-474: the body of the loop for one component.
check_comp(comp, u_size, p_size, skip_keys) ==
    IF comp.force_fd
    THEN [error |-> NoError, skip_keys |-> skip_keys, effects |-> {},
          checked |-> FALSE, cdata |-> <<>>]
    ELSE IF ~comp.active
    THEN \* comp.params: the accessor of a component without vectors raises
         [error |-> [outcome |-> "RuntimeError", line |-> 368, msg |-> <<comp.name>>],
          skip_keys |-> skip_keys, effects |-> {<<comp.name, "accessor">>},
          checked |-> FALSE, cdata |-> <<>>]
    ELSE LET a == allocate_jacs(comp, u_size, p_size, 1, skip_keys, {})
             read == {<<comp.name, "accessor">>, <<comp.name, "vectors">>}
         IN  IF a.error.outcome # "none"
             THEN [error |-> a.error, skip_keys |-> a.skip_keys, effects |-> read,
                   checked |-> FALSE, cdata |-> <<>>]
             ELSE [error |-> NoError, skip_keys |-> a.skip_keys,
                   effects |-> read \cup {<<comp.name, "apply_linear">>,
                                          <<comp.name, "fd_jacobian">>},
                   checked |-> TRUE,
                   cdata |-> assemble_deriv_data(comp, a.skip_keys, a.allocated)]

\* what is configured on one component before the check
CompSettings == [active : BOOLEAN, force_fd : BOOLEAN, cache : Caches]

\* component number i of the model
CompAt(env, i) ==
    [name |-> CompOrder[i], active |-> env.comps[i].active,
     force_fd |-> env.comps[i].force_fd, cache |-> env.comps[i].cache]

InitCheck ==
    /\ cp_env \in [comps : [DOMAIN CompOrder -> CompSettings],
                   u_size : 1..MaxSize, p_size : 1..MaxSize]
    /\ cp_pc = "ready"
    /\ cp_i = 0
    /\ cp_skip_keys = {}
    /\ cp_data = <<>>
    /\ cp_effects = {}
    /\ cp_result = NoError

IdleCheck ==
    /\ cp_env = <<>>
    /\ cp_pc = "idle"
    /\ cp_i = 0
    /\ cp_skip_keys = {}
    /\ cp_data = <<>>
    /\ cp_effects = {}
    /\ cp_result = NoError

\* problem.py 339-351: the model is linearized, data and skip_keys are created.
CheckPartialDerivatives ==
    /\ cp_pc = "ready"
    /\ cp_pc' = "loop"
    /\ cp_i' = 1
    /\ cp_skip_keys' = {}
    /\ cp_data' = <<>>
    /\ cp_effects' = {<<"root", "jacobian">>}
    /\ UNCHANGED <<cp_env, cp_result>>
    /\ UNCHANGED <<anVars, suVars, cgVars, rgVars>>

\* problem.py 356-474: the next component of the hierarchy is checked.
CheckComp ==
    /\ cp_pc = "loop"
    /\ cp_i <= Len(CompOrder)
    /\ LET comp == CompAt(cp_env, cp_i)
           r == check_comp(comp, cp_env.u_size, cp_env.p_size, cp_skip_keys)
       IN  /\ cp_skip_keys' = r.skip_keys
           /\ cp_effects' = cp_effects \cup r.effects
           /\ cp_data' = IF r.checked
                         THEN [c \in DOMAIN cp_data \cup {comp.name} |->
                                 IF c = comp.name THEN r.cdata ELSE cp_data[c]]
                         ELSE cp_data
           /\ cp_result' = r.error
           /\ cp_pc' = IF r.error.outcome # "none" THEN "done" ELSE "loop"
           /\ cp_i' = IF r.error.outcome # "none" THEN cp_i ELSE cp_i + 1
    /\ UNCHANGED cp_env
    /\ UNCHANGED <<anVars, suVars, cgVars, rgVars>>

\* problem.py 476: every component was visited; data is returned.
CheckReturn ==
    /\ cp_pc = "loop"
    /\ cp_i > Len(CompOrder)
    /\ cp_pc' = "done"
    /\ cp_result' = [outcome |-> "return", line |-> 476, msg |-> <<>>]
    /\ UNCHANGED <<cp_env, cp_i, cp_skip_keys, cp_data, cp_effects>>
    /\ UNCHANGED <<anVars, suVars, cgVars, rgVars>>

NextCheck == CheckPartialDerivatives \/ CheckComp \/ CheckReturn

\* the check has raised or returned
CheckEnded == cp_pc = "done"
\* the components whose derivatives the check is to report
ToCheck == {i \in DOMAIN CompOrder : cp_pc # "idle" /\ ~cp_env.comps[i].force_fd}
\* the component declares a block for the pair
Declares(i, pair) == ~cp_env.comps[i].cache.none /\ pair \in cp_env.comps[i].cache.declared
\* the component has a cache that holds no block for the pair
Undeclared(i, pair) == ~cp_env.comps[i].cache.none /\ pair \notin cp_env.comps[i].cache.declared
\* the shape a block counts as: a scalar as (1, 1), a vector of n as (n, 1)
CountsAs(shape) ==
    IF shape = NoShape \/ shape = <<>> THEN <<1, 1>>
    ELSE IF Len(shape) = 1 THEN <<shape[1], 1>> ELSE shape
\* the blocks of the component do not have the shape (output_size, input_size)
WrongShape(i) ==
    /\ cp_env.comps[i].cache.declared # {}
    /\ CountsAs(cp_env.comps[i].cache.shape) # <<cp_env.u_size, cp_env.p_size>>

\* C12: in a completed check a component's pair is reported as zero matrices
\* (skipped) exactly when that component's cache is not None and holds no
\* block for the pair; a declared pair is reported with the swept values,
\* whatever the other components declare.
C12_SkippedIffUndeclaredHere ==
    (CheckEnded /\ cp_result.outcome = "return") =>
        \A i \in ToCheck : \A pair \in Pairs :
            /\ CompOrder[i] \in DOMAIN cp_data
            /\ cp_data[CompOrder[i]][pair] = "zeros" <=> Undeclared(i, pair)

\* C13: a ValueError naming the component and the two variables is raised
\* exactly when a cached block of a checked component has a shape other than
\* (output_size, input_size), a scalar block counting as (1, 1) and a vector
\* of length n as (n, 1); apply_linear has then not run on that component.
C13_ShapeMismatchRaisesValueError ==
    CheckEnded =>
        /\ cp_result.outcome \in {"return", "ValueError", "RuntimeError"}
        /\ cp_result.outcome = "ValueError" =>
              \E i \in ToCheck :
                 /\ cp_result.msg[1] = CompOrder[i]
                 /\ Declares(i, <<cp_result.msg[3], cp_result.msg[2]>>)
                 /\ WrongShape(i)
                 /\ <<CompOrder[i], "apply_linear">> \notin cp_effects
        /\ cp_result.outcome = "return" => \A i \in ToCheck : ~WrongShape(i)

\* C20: with an inactive component in the model, and no block of a wrong
\* shape, the check completes normally; it has read no vector of the
\* inactive component, has run neither apply_linear nor fd_jacobian on it,
\* and returns metrics for every active component that is not force_fd.
C20_InactiveComponentExcluded ==
    (/\ CheckEnded
     /\ \E i \in DOMAIN CompOrder : ~cp_env.comps[i].active
     /\ \A i \in ToCheck : cp_env.comps[i].active => ~WrongShape(i)
     /\ \A i \in ToCheck : cp_env.comps[i].active =>
            cp_env.comps[i].cache.shape \notin {NoShape, <<>>}
               \/ cp_env.comps[i].cache.declared = {}) =>
        /\ cp_result.outcome = "return"
        /\ \A i \in DOMAIN CompOrder : ~cp_env.comps[i].active =>
              \A e \in {"accessor", "vectors", "apply_linear", "fd_jacobian"} :
                  <<CompOrder[i], e>> \notin cp_effects
        /\ \A i \in ToCheck : cp_env.comps[i].active => CompOrder[i] \in DOMAIN cp_data

----------------------------------------------------------------------------
(***************************************************************************)
(* The variable registry of a Component: add_param / add_output /          *)
(* add_state, _setup_variables, _setup_vectors and the vector accessors.   *)
(* A name is a sequence of path elements: 'c:x' is <<"c", "x">>.           *)
(***************************************************************************)

\* largest dimension of an array value or of a shape argument
MaxDim == 2
\* how many times _setup_variables runs on the component (Problem.setup calls)
MaxSetups == 2

\* the local names variables are registered under
LocalNames == {<<"x">>, <<"y">>}
\* the pathname of the component: '' for the root, 'c' below it
Pathnames == {<<>>, <<"c">>}
AddOps == {"add_param", "add_output", "add_state"}
Accessors == {"unknowns", "dunknowns", "params", "dparams", "resids", "dresids"}

\* values: the default _NotSet, a float, an opaque object, a numpy array
NotSet == [kind |-> "notset", dims |-> <<>>]
FloatVal == [kind |-> "float", dims |-> <<>>]
ObjectVal == [kind |-> "object", dims |-> <<>>]
ArrayVal(dims) == [kind |-> "ndarray", dims |-> dims]
\* the shape argument and the stored shape: absent, an int, a tuple
ShapeNone == [kind |-> "none", dims |-> <<>>]
ShapeInt(n) == [kind |-> "int", dims |-> <<n>>]
ShapeTuple(dims) == [kind |-> "tuple", dims |-> dims]

\* the arguments val, shape and pass_by_obj of one registration
Args(val, shape, pass_by_obj) == [val |-> val, shape |-> shape, pass_by_obj |-> pass_by_obj]

\* The first variable is registered with every kind of value and shape, the
\* second one as a plain scalar.
ArgChoices(name) ==
    IF name = <<"x">>
    THEN {Args(NotSet, ShapeNone, FALSE), Args(NotSet, ShapeInt(1), FALSE),
          Args(NotSet, ShapeInt(MaxDim), FALSE), Args(NotSet, ShapeTuple(<<1, MaxDim>>), FALSE),
          Args(FloatVal, ShapeNone, FALSE), Args(FloatVal, ShapeInt(MaxDim), FALSE),
          Args(FloatVal, ShapeNone, TRUE), Args(ArrayVal(<<MaxDim>>), ShapeNone, FALSE),
          Args(ObjectVal, ShapeNone, FALSE), Args(ObjectVal, ShapeInt(MaxDim), FALSE)}
    ELSE {Args(FloatVal, ShapeNone, FALSE)}

\* number of elements of an array of the given dimensions
RECURSIVE Product(_)
Product(dims) == IF dims = <<>> THEN 1 ELSE Head(dims) * Product(Tail(dims))

\* openmdao.util.types.is_differentiable: floats and float arrays are
is_differentiable(val) == val.kind \in {"float", "ndarray"}

\* component.py 37-44
get_initial_val(val, shape) ==
    IF val = NotSet
    THEN IF shape = ShapeInt(1) THEN FloatVal ELSE ArrayVal(shape.dims)
    ELSE val

\* component.py 46-51: TRUE when _check_val raises the ValueError
check_val_raises(val, shape) == val = NotSet /\ shape = ShapeNone

\* the keys of an ordered dictionary, a sequence of <<key, meta>> entries
KeysOf(d) == {d[i][1] : i \in DOMAIN d}
\* d[key] = meta on an ordered dictionary
odict_set(d, key, meta) ==
    IF key \in KeysOf(d)
    THEN [i \in DOMAIN d |-> IF d[i][1] = key THEN <<key, meta>> ELSE d[i]]
    ELSE Append(d, <<key, meta>>)

\* A duplicate test that looks at the parameters only.
name_exists_ParamsOnly(name, params, unknowns) == name \in KeysOf(params)

\* component.py 134: name in self._params_dict or name in self._unknowns_dict
name_exists(name, params, unknowns) ==
    name \in KeysOf(params) \/ name \in KeysOf(unknowns)

\* A text that is the first argument of the exception alone.
exception_text_FirstArgument(args) == args[1]

\* str() of an exception: its argument when it has one, otherwise the tuple
\* of its arguments; here a template and a pair
exception_text(args) ==
    IF Len(args) = 1 THEN args[1]
    ELSE << <<"(">> >> \o args[1] \o
         << <<", (">>, args[2][1], <<", ">>, args[2][2], <<"))">> >>

NoExc == [outcome |-> "ok", line |-> 0, msg |-> <<>>]

\* the var_type add_param, add_output and add_state pass to _add_variable
var_type(op) ==
    IF op = "add_param" THEN "param" ELSE IF op = "add_output" THEN "output" ELSE "state"

\* component.py 130-136: _check_name.  At line 132 the template and the tuple
\* (pathname, name) are passed to RuntimeError as two arguments (a comma
\* where line 135 has %): the template is not formatted.
check_name(pathname, post_setup, name, params, unknowns) ==
    IF post_setup
    THEN [outcome |-> "RuntimeError", line |-> 132,
          msg |-> exception_text(
                    << << <<"%s: can't add variable '%s' because setup has already been called">> >>,
                       <<pathname, name>> >>)]
    ELSE IF name_exists(name, params, unknowns)
    THEN [outcome |-> "RuntimeError", line |-> 135,
          msg |-> exception_text(
                    << <<pathname, <<": variable '">>, name, <<"' already exists">> >> >>)]
    ELSE NoExc

\* component.py 57-75: the metadata _add_variable builds and returns
variable_meta(val0, shape, pass_by_obj) ==
    LET val == get_initial_val(val0, shape)
        sized == is_differentiable(val) /\ ~pass_by_obj
        shape1 == IF sized
                  THEN IF val.kind = "ndarray" THEN ShapeTuple(val.dims) ELSE ShapeInt(1)
                  ELSE shape
    IN  [val |-> val,
         size |-> IF sized THEN (IF val.kind = "ndarray" THEN Product(val.dims) ELSE 1)
                  ELSE 0,
         shape |-> IF shape.kind = "int" /\ shape.dims[1] > 1
                   THEN ShapeTuple(shape.dims) ELSE shape1,
         pass_by_obj |-> ~sized \/ pass_by_obj,
         state |-> FALSE,
         remote |-> FALSE,
         relative_name |-> <<>>]

\* component.py 53-86: add_param / add_output / add_state.  The result is the
\* exception raised, if any, and the two dictionaries after the call.
add_variable(pathname, post_setup, params, unknowns, op, name, val, shape, pass_by_obj) ==
    LET named == check_name(pathname, post_setup, name, params, unknowns)
        meta == variable_meta(val, shape, pass_by_obj)
    IN  IF check_val_raises(val, shape)
        THEN [exc |-> [outcome |-> "ValueError", line |-> 51,
                       msg |-> exception_text(
                                 << << <<"Shape of ">>, <<var_type(op)>>, <<" '">>, name,
                                       <<"' must be specified because 'val' is not set">> >> >>)],
              params |-> params, unknowns |-> unknowns]
        ELSE IF named.outcome # "ok"
        THEN [exc |-> named, params |-> params, unknowns |-> unknowns]
        ELSE IF op = "add_param"
        THEN [exc |-> NoExc, params |-> odict_set(params, name, meta),
              unknowns |-> unknowns]
        ELSE [exc |-> NoExc, params |-> params,
              unknowns |-> odict_set(unknowns, name,
                                     [meta EXCEPT !.state = (op = "add_state")])]

\* A renaming that prefixes the separator at the root as well.
var_pathname_AlwaysJoined(pathname, name) ==
    IF pathname = <<>> THEN <<"">> \o name ELSE pathname \o name

\* component.py 169-172: ':'.join([self.pathname, name]), or name at the root
var_pathname(pathname, name) ==
    IF pathname = <<>> THEN name ELSE pathname \o name

\* component.py 167-176 and 178-186: one dictionary rekeyed with absolute
\* names; every meta gets its old key as relative_name.  System
\* ._set_vars_as_remote (191-192) flags the variables of an inactive component.
rekey(pathname, active, d) ==
    [i \in DOMAIN d |->
        <<var_pathname(pathname, d[i][1]),
          [d[i][2] EXCEPT !.relative_name = d[i][1],
                          !.remote = (~active \/ d[i][2].remote)]>>]

\* An accessor that hands out whatever _vecs is.
accessor_Unguarded(name, vecs, which) ==
    [outcome |-> "return", line |-> 91, msg |-> <<>>, value |-> vecs]

\* component.py 88-128: one of the six vector properties.  self._vecs.<which>
\* on None raises AttributeError, which the bare except turns into the
\* RuntimeError.
accessor(name, vecs, which) ==
    IF vecs = "None"
    THEN [outcome |-> "RuntimeError", line |-> 93,
          msg |-> exception_text(
                    << << <<"Vectors have not yet been initialized for Component '">>,
                          name, <<"'">> >> >>),
          value |-> "none"]
    ELSE [outcome |-> "return", line |-> 91, msg |-> <<>>, value |-> which]

\* self.name: the last element of the pathname, '' for the root
component_name(pathname) ==
    IF pathname = <<>> THEN <<"">> ELSE <<pathname[Len(pathname)]>>

NoRegistryCall ==
    [op |-> "none", name |-> <<>>, unsized |-> FALSE, outcome |-> "ok", line |-> 0,
     msg |-> <<>>, value |-> "none"]

\* component.py 30-35: a new component; nothing registered, _vecs is None
InitRegistry ==
    /\ rg_pathname \in Pathnames
    /\ rg_active \in BOOLEAN
    /\ rg_params = <<>>
    /\ rg_unknowns = <<>>
    /\ rg_post_setup = FALSE
    /\ rg_vecs = "None"
    /\ rg_setups = 0
    /\ rg_vsetups = 0
    /\ rg_last = NoRegistryCall

IdleRegistry ==
    /\ rg_pathname = <<>>
    /\ rg_active = FALSE
    /\ rg_params = <<>>
    /\ rg_unknowns = <<>>
    /\ rg_post_setup = FALSE
    /\ rg_vecs = "idle"
    /\ rg_setups = 0
    /\ rg_vsetups = 0
    /\ rg_last = NoRegistryCall

\* add_param, add_output or add_state is called.
AddVariable ==
    /\ rg_vecs # "idle"
    /\ \E op \in AddOps, name \in LocalNames :
       \E a \in ArgChoices(name) :
         LET r == add_variable(rg_pathname, rg_post_setup, rg_params, rg_unknowns,
                               op, name, a.val, a.shape, a.pass_by_obj)
         IN  /\ rg_params' = r.params
             /\ rg_unknowns' = r.unknowns
             /\ rg_last' = [op |-> op, name |-> name,
                            unsized |-> check_val_raises(a.val, a.shape),
                            outcome |-> r.exc.outcome, line |-> r.exc.line,
                            msg |-> r.exc.msg, value |-> "none"]
    /\ UNCHANGED <<rg_pathname, rg_active, rg_post_setup, rg_vecs, rg_setups, rg_vsetups>>
    /\ UNCHANGED <<anVars, suVars, cgVars, cpVars>>

\* component.py 162-194: _setup_variables, called by every Problem.setup.
SetupVariables ==
    /\ rg_vecs # "idle"
    /\ rg_setups < MaxSetups
    /\ rg_params' = rekey(rg_pathname, rg_active, rg_params)
    /\ rg_unknowns' = rekey(rg_pathname, rg_active, rg_unknowns)
    /\ rg_post_setup' = TRUE
    /\ rg_setups' = rg_setups + 1
    /\ rg_last' = [NoRegistryCall EXCEPT !.op = "_setup_variables"]
    /\ UNCHANGED <<rg_pathname, rg_active, rg_vecs, rg_vsetups>>
    /\ UNCHANGED <<anVars, suVars, cgVars, cpVars>>

\* component.py 196-231: _setup_vectors, which Problem.setup calls after
\* _setup_variables; an inactive component returns at once.
SetupVectors ==
    /\ rg_vecs # "idle"
    /\ rg_vsetups < rg_setups
    /\ rg_vecs' = IF rg_active THEN "views" ELSE rg_vecs
    /\ rg_vsetups' = rg_vsetups + 1
    /\ rg_last' = [NoRegistryCall EXCEPT !.op = "_setup_vectors"]
    /\ UNCHANGED <<rg_pathname, rg_active, rg_params, rg_unknowns, rg_post_setup, rg_setups>>
    /\ UNCHANGED <<anVars, suVars, cgVars, cpVars>>

\* One of the six vector properties is read.
ReadAccessor ==
    /\ rg_vecs # "idle"
    /\ \E which \in Accessors :
         LET r == accessor(component_name(rg_pathname), rg_vecs, which)
         IN  rg_last' = [op |-> which, name |-> <<>>, unsized |-> FALSE,
                         outcome |-> r.outcome, line |-> r.line, msg |-> r.msg,
                         value |-> r.value]
    /\ UNCHANGED <<rg_pathname, rg_active, rg_params, rg_unknowns, rg_post_setup,
                   rg_vecs, rg_setups, rg_vsetups>>
    /\ UNCHANGED <<anVars, suVars, cgVars, cpVars>>

NextRegistry == AddVariable \/ SetupVariables \/ SetupVectors \/ ReadAccessor

\* every name registered so far
Registered == KeysOf(rg_params) \cup KeysOf(rg_unknowns)
\* no key occurs twice in the dictionary
NoDupKeys(d) == Cardinality(KeysOf(d)) = Len(d)
\* the text of the message has the piece
Mentions(msg, piece) == \E i \in DOMAIN msg : msg[i] = piece
\* the relative names of a dictionary, in its order
RelNames(d) == [i \in DOMAIN d |-> d[i][2].relative_name]
\* the dictionary d2 is d1 with one entry for the name added at its end
GrewBy(d1, d2, name) ==
    /\ Len(d2) = Len(d1) + 1
    /\ d2[Len(d2)][1] = name
    /\ \A i \in DOMAIN d1 : d2[i] = d1[i]

\* C14: before setup the keys of the parameter and the unknowns dictionary
\* are disjoint and unique, a call succeeds only for a name not registered
\* yet, and a call whose name is registered already raises RuntimeError and
\* leaves both dictionaries unchanged.
C14_DisjointAndDuplicateRaisesRuntimeError ==
    /\ [](~rg_post_setup =>
            /\ KeysOf(rg_params) \cap KeysOf(rg_unknowns) = {}
            /\ NoDupKeys(rg_params) /\ NoDupKeys(rg_unknowns))
    /\ [][(~rg_post_setup /\ rg_last'.op \in AddOps) =>
            /\ rg_last'.name \in Registered =>
                 /\ rg_last'.outcome = "RuntimeError"
                 /\ UNCHANGED <<rg_params, rg_unknowns>>
            /\ rg_last'.outcome = "ok" =>
                 /\ rg_last'.name \notin Registered
                 /\ IF rg_last'.op = "add_param"
                    THEN GrewBy(rg_params, rg_params', rg_last'.name)
                         /\ UNCHANGED rg_unknowns
                    ELSE GrewBy(rg_unknowns, rg_unknowns', rg_last'.name)
                         /\ UNCHANGED rg_params]_vars

\* C14, amended: the same, except that a call for a registered name made
\* without a value and without a shape raises the ValueError of _check_val;
\* every other call for a registered name raises the RuntimeError.  Both
\* leave the dictionaries unchanged.
C14_DisjointAndDuplicateFails ==
    /\ [](~rg_post_setup =>
            /\ KeysOf(rg_params) \cap KeysOf(rg_unknowns) = {}
            /\ NoDupKeys(rg_params) /\ NoDupKeys(rg_unknowns))
    /\ [][(~rg_post_setup /\ rg_last'.op \in AddOps) =>
            /\ rg_last'.name \in Registered =>
                 /\ rg_last'.outcome =
                       IF rg_last'.unsized THEN "ValueError" ELSE "RuntimeError"
                 /\ UNCHANGED <<rg_params, rg_unknowns>>
            /\ rg_last'.outcome # "ok" => UNCHANGED <<rg_params, rg_unknowns>>
            /\ rg_last'.outcome = "ok" =>
                 /\ rg_last'.name \notin Registered
                 /\ IF rg_last'.op = "add_param"
                    THEN GrewBy(rg_params, rg_params', rg_last'.name)
                         /\ UNCHANGED rg_unknowns
                    ELSE GrewBy(rg_unknowns, rg_unknowns', rg_last'.name)
                         /\ UNCHANGED rg_params]_vars

\* C14 witness: before setup, add_param for a name that is registered as an
\* unknown has raised the RuntimeError of line 135, with a parameter and an
\* unknown registered.
C14_Witness ==
    /\ ~rg_post_setup
    /\ rg_last.op = "add_param"
    /\ rg_last.name \in KeysOf(rg_unknowns)
    /\ rg_last.outcome = "RuntimeError" /\ rg_last.line = 135
    /\ Len(rg_params) = 1 /\ Len(rg_unknowns) = 1

\* C15: after _setup_variables every add_param / add_output / add_state call
\* fails with the RuntimeError of a late registration, and the text of its
\* message contains the name of the variable and the component pathname.
C15_LateAddRaisesNamingVariable ==
    (rg_post_setup /\ rg_last.op \in AddOps) =>
        /\ rg_last.outcome = "RuntimeError"
        /\ rg_last.line = 132
        /\ Mentions(rg_last.msg, rg_last.name)
        /\ Mentions(rg_last.msg, rg_pathname)


\* C15, amended: after _setup_variables every add_param / add_output /
\* add_state call fails: with the ValueError of _check_val when it gives no
\* value and no shape, otherwise with the RuntimeError of a late
\* registration, whose text contains the variable's name and the pathname.
C15_LateAddFailsNamingVariable ==
    (rg_post_setup /\ rg_last.op \in AddOps) =>
        /\ Mentions(rg_last.msg, rg_last.name)
        /\ IF rg_last.unsized
           THEN rg_last.outcome = "ValueError" /\ rg_last.line = 51
           ELSE /\ rg_last.outcome = "RuntimeError"
                /\ rg_last.line = 132
                /\ Mentions(rg_last.msg, rg_pathname)

\* C15 witness: after setup, add_state for a name that was never registered,
\* with a value, has raised the RuntimeError of line 132.
C15_Witness ==
    /\ rg_post_setup
    /\ rg_last.op = "add_state"
    /\ ~rg_last.unsized
    /\ rg_last.outcome = "RuntimeError" /\ rg_last.line = 132
    /\ rg_pathname = <<"c">>
    /\ rg_last.name = <<"y">>
    /\ KeysOf(rg_params) \cup KeysOf(rg_unknowns) = {<<"c", "x">>}

\* the absolute name of a variable of the component
Joined(pathname, local) == IF pathname = <<>> THEN local ELSE pathname \o local
\* d2 is d1 rekeyed: same length and order, every key made absolute, every
\* relative_name the old key, nothing else of the metadata touched
Rekeyed(d1, d2) ==
    /\ Len(d2) = Len(d1)
    /\ \A i \in DOMAIN d1 :
         /\ d2[i][1] = Joined(rg_pathname, d1[i][1])
         /\ d2[i][2].relative_name = d1[i][1]
         /\ d2[i][2].val = d1[i][2].val
         /\ d2[i][2].size = d1[i][2].size
         /\ d2[i][2].shape = d1[i][2].shape
         /\ d2[i][2].state = d1[i][2].state
         /\ d2[i][2].pass_by_obj = d1[i][2].pass_by_obj

\* C16: the first _setup_variables of a component rekeys every parameter and
\* unknown to pathname + ':' + local name (the local name alone when the
\* pathname is empty), sets relative_name to the local name, keeps the
\* registration order and adds or loses no variable.
C16_SetupVariablesRekeys ==
    [][(rg_setups = 0 /\ rg_setups' = 1) =>
          /\ Rekeyed(rg_params, rg_params')
          /\ Rekeyed(rg_unknowns, rg_unknowns')]_vars

\* C16 witness: _setup_variables has just run once on a component below the
\* root that holds an output y and, registered after it, a state x.
C16_Witness ==
    /\ rg_setups = 1
    /\ rg_last.op = "_setup_variables"
    /\ rg_pathname = <<"c">>
    /\ Len(rg_unknowns) = 2
    /\ rg_unknowns[1][1] = <<"c", "y">> /\ rg_unknowns[2][1] = <<"c", "x">>
    /\ rg_unknowns[2][2].state

\* the shape of a value: 1 for a scalar, the dimensions for an array
ShapeOfValue(val) ==
    IF val.kind = "ndarray" THEN ShapeTuple(val.dims) ELSE ShapeInt(1)

\* C17: every registered variable whose value is differentiable and that was
\* not asked to be passed by object has size and shape derived from the
\* stored value, size being the product of the stored shape's dimensions;
\* every other variable has pass_by_obj = True and size 0.
C17_SizeAndShapeFromValue ==
    \A d \in {rg_params, rg_unknowns} : \A i \in DOMAIN d :
        LET m == d[i][2]
        IN  IF is_differentiable(m.val) /\ ~m.pass_by_obj
            THEN /\ m.size = Product(m.val.dims)
                 /\ m.shape = ShapeOfValue(m.val)
                 /\ m.size = Product(m.shape.dims)
            ELSE m.pass_by_obj /\ m.size = 0

\* C18: once _setup_variables has completed, no operation on the component
\* changes the keys of its two dictionaries or the relative_name of a
\* variable.
C18_RegistryFrozenAfterSetup ==
    [][rg_post_setup =>
          /\ KeysOf(rg_params') = KeysOf(rg_params)
          /\ KeysOf(rg_unknowns') = KeysOf(rg_unknowns)
          /\ RelNames(rg_params') = RelNames(rg_params)
          /\ RelNames(rg_unknowns') = RelNames(rg_unknowns)]_vars

\* _setup_vectors has constructed the vectors of the component
VectorsConstructed == rg_active /\ rg_vsetups > 0

\* C19: as long as _setup_vectors has not constructed the vectors (always,
\* for an inactive component) reading any of the six accessors raises a
\* RuntimeError naming the component and returns nothing; once it has, on an
\* active component, the accessor returns the vector asked for.
C19_AccessorsGuarded ==
    /\ rg_vecs = "views" <=> VectorsConstructed
    /\ rg_last.op \in Accessors =>
         IF VectorsConstructed
         THEN rg_last.outcome = "return" /\ rg_last.value = rg_last.op
         ELSE /\ rg_last.outcome = "RuntimeError"
              /\ Mentions(rg_last.msg, component_name(rg_pathname))
              /\ rg_last.value = "none"

\* C19 witness: dparams was read on an inactive component after both setup
\* steps ran on it, and the read raised.
C19_Witness ==
    /\ ~rg_active
    /\ rg_vsetups > 0
    /\ rg_last.op = "dparams"
    /\ rg_last.outcome = "RuntimeError"
    /\ rg_pathname = <<"c">>

----------------------------------------------------------------------------
(***************************************************************************)
(* The specifications: one per part of the program, and their union.       *)
(***************************************************************************)
ResidualInit == InitResidual /\ IdleSetup /\ IdleGradient /\ IdleCheck /\ IdleRegistry
SetupInit == IdleResidual /\ InitSetup /\ IdleGradient /\ IdleCheck /\ IdleRegistry
GradientInit == IdleResidual /\ IdleSetup /\ InitGradient /\ IdleCheck /\ IdleRegistry
CheckInit == IdleResidual /\ IdleSetup /\ IdleGradient /\ InitCheck /\ IdleRegistry
RegistryInit == IdleResidual /\ IdleSetup /\ IdleGradient /\ IdleCheck /\ InitRegistry

SpecResidual == ResidualInit /\ [][NextResidual]_vars
SpecSetup == SetupInit /\ [][NextSetup]_vars
SpecGradient == GradientInit /\ [][NextGradient]_vars
SpecCheck == CheckInit /\ [][NextCheck]_vars
SpecRegistry == RegistryInit /\ [][NextRegistry]_vars

Init == ResidualInit \/ SetupInit \/ GradientInit \/ CheckInit \/ RegistryInit

Next == NextResidual \/ NextSetup \/ NextGradient \/ NextCheck \/ NextRegistry

Spec == Init /\ [][Next]_vars
============================================================================
